---- MODULE Spec2Model ----
(***************************************************************************)
(* Model of the btf BrainFuck tool: the program loader and bracket         *)
(* validator of btf_types (BrainFuckProgram) and the virtual machine of    *)
(* btf_interp (VirtualMachine<u8>).  Indices (instruction_pointer, head,   *)
(* keys and values of brackets_map) are 0-based as in the Rust code; the   *)
(* sequences that hold instructions and tape cells are 1-based, so cell    *)
(* `head` is tape[head + 1] and the instruction at `ip` is                 *)
(* instructions[ip + 1].                                                   *)
(***************************************************************************)
EXTENDS Integers, Sequences, FiniteSets, TLC

(* ------------------------------ bounds --------------------------------- *)
\* longest source text of a program that is run on the virtual machine
MaxLen == 4
\* longest source text handed to the loader and the validator alone
MaxSrcLen == 4
\* largest configured tape size (the `size` argument of VirtualMachine::new)
MaxSize == 2
\* longest input stream handed to interpret
MaxInput == 1
\* most bytes the output stream takes before the run is left alone
MaxOutput == 2

(* ------------------------- program constants --------------------------- *)
\* u8 cells: values 0 .. 255, arithmetic wraps modulo 256
CellModulus == 256
\* VirtualMachine::new: size.unwrap_or(3000)
DefaultTapeSize == 3000

\* the characters a source text is made of: the eight instruction symbols,
\* the newline and one character that is no instruction (a comment)
Alphabet == {">", "<", "+", "-", ".", ",", "[", "]", "\n", "c"}
\* the bytes an input stream is made of
InputBytes == {7}

RECURSIVE SeqsUpTo(_, _)
SeqsUpTo(S, n) ==
    IF n = 0 THEN {<< >>}
    ELSE LET shorter == SeqsUpTo(S, n - 1)
         IN  shorter \cup {Append(s, x) : s \in {t \in shorter : Len(t) = n - 1}, x \in S}

(* ---------------------------- btf_types -------------------------------- *)
\* impl TryFrom<char> for RawInstructions
TryFrom(symbol) ==
    CASE symbol = "<" -> "DecrementDataPointer"
      [] symbol = ">" -> "IncrementDataPointer"
      [] symbol = "+" -> "IncrementByte"
      [] symbol = "-" -> "DecrementByte"
      [] symbol = "." -> "OutputByte"
      [] symbol = "," -> "AcceptByte"
      [] symbol = "[" -> "ZeroJump"
      [] symbol = "]" -> "NonZeroJump"
      [] OTHER -> "Err"

\* a parser that restarts the column at 1 on the newline itself, so that the
\* character after it gets column 2
RECURSIVE NewScanNewlineTakesColumn(_, _, _, _, _)
NewScanNewlineTakesColumn(content, i, line, position, instrs) ==
    IF i > Len(content) THEN instrs
    ELSE LET char == content[i]
             line1 == IF char = "\n" THEN line + 1 ELSE line
             position1 == IF char = "\n" THEN 1 ELSE position
             instrs1 == IF TryFrom(char) # "Err"
                        THEN Append(instrs, [instruction |-> TryFrom(char),
                                             line |-> line1,
                                             position |-> position1])
                        ELSE instrs
         IN  NewScanNewlineTakesColumn(content, i + 1, line1, position1 + 1, instrs1)

\* the body of the `for char in content.chars()` loop of BrainFuckProgram::new,
\* from character i on, with the loop's line, position and instructions
RECURSIVE NewScan(_, _, _, _, _)
NewScan(content, i, line, position, instrs) ==
    IF i > Len(content) THEN instrs
    ELSE LET char == content[i]
             line1 == IF char = "\n" THEN line + 1 ELSE line
             position1 == IF char = "\n" THEN 0 ELSE position
             instrs1 == IF TryFrom(char) # "Err"
                        THEN Append(instrs, [instruction |-> TryFrom(char),
                                             line |-> line1,
                                             position |-> position1])
                        ELSE instrs
         IN  NewScan(content, i + 1, line1, position1 + 1, instrs1)

\* BrainFuckProgram::new: the instructions of a source text
BrainFuckProgram_new(content) == NewScan(content, 1, 1, 1, << >>)

\* HashMap::new()
EmptyMap == << >>

\* HashMap::insert
MapInsert(m, k, v) == (k :> v) @@ m

\* a validator that formats the column 0-based
ValidateErrZeroBased(kind, instr) ==
    [kind |-> kind, line |-> instr.line, column |-> instr.position - 1, map |-> << >>]

\* the results of validate_brackets
ValidateOk(map) == [kind |-> "Ok", line |-> 0, column |-> 0, map |-> map]
ValidateErr(kind, instr) ==
    [kind |-> kind, line |-> instr.line, column |-> instr.position, map |-> EmptyMap]
NotValidated == [kind |-> "None", line |-> 0, column |-> 0, map |-> EmptyMap]

\* a validator that records the pair in one direction only
InsertPairOneWay(map, opened_bracket, position) ==
    MapInsert(map, opened_bracket, position)

\* brackets_map.insert(opened_bracket.0, position);
\* brackets_map.insert(position, opened_bracket.0)
InsertPair(map, opened_bracket, position) ==
    MapInsert(MapInsert(map, opened_bracket, position), position, opened_bracket)

\* a validator that reports the outermost unclosed bracket
StackFirst(opened_brackets) == opened_brackets[1]

\* opened_brackets.last()
StackLast(opened_brackets) == opened_brackets[Len(opened_brackets)]

\* a validator that takes the oldest open bracket, not the newest
PopFront(opened_brackets) ==
    [bracket |-> opened_brackets[1],
     rest |-> SubSeq(opened_brackets, 2, Len(opened_brackets))]

\* opened_brackets.pop() on a non-empty Vec: the last element and what is left
Pop(opened_brackets) ==
    [bracket |-> opened_brackets[Len(opened_brackets)],
     rest |-> SubSeq(opened_brackets, 1, Len(opened_brackets) - 1)]

\* the scan of validate_brackets from instruction index `position` (0-based) on;
\* opened_brackets is the stack of indices of the open brackets (last = top)
RECURSIVE ValidateScan(_, _, _, _)
ValidateScan(instrs, position, opened_brackets, map) ==
    IF position >= Len(instrs)
    THEN IF opened_brackets # << >>
         THEN ValidateErr("NoCloseBracket", instrs[StackLast(opened_brackets) + 1])
         ELSE ValidateOk(map)
    ELSE LET instruction == instrs[position + 1]
         IN  CASE instruction.instruction = "ZeroJump" ->
                    ValidateScan(instrs, position + 1,
                                 Append(opened_brackets, position), map)
               [] instruction.instruction = "NonZeroJump" ->
                    IF opened_brackets # << >>
                    THEN LET opened_bracket == Pop(opened_brackets).bracket
                             popped == Pop(opened_brackets).rest
                         IN  ValidateScan(instrs, position + 1, popped,
                                          InsertPair(map, opened_bracket, position))
                    ELSE ValidateErr("NoOpenBracket", instruction)
               [] OTHER -> ValidateScan(instrs, position + 1, opened_brackets, map)

\* BrainFuckProgram::validate_brackets
validate_brackets(instrs) == ValidateScan(instrs, 0, << >>, EmptyMap)

(* ------------------------------ state ---------------------------------- *)
VARIABLES
    content,              \* the source text the program was parsed from
    instructions,         \* BrainFuckProgram.instructions
    brackets_map,         \* BrainFuckProgram.brackets_map
    validation,           \* the last result of validate_brackets
    pc,                   \* where the caller is
    tape,                 \* VirtualMachine.tape
    adjust_tape,          \* VirtualMachine.adjust_tape
    head,                 \* VirtualMachine.head
    instruction_pointer,  \* VirtualMachine.instruction_pointer
    reader,               \* the bytes left in interpret's input stream
    writer,               \* the bytes interpret's output stream has taken
    result,               \* what interpret returned
    first                 \* what the caller kept of its first run

vars == <<content, instructions, brackets_map, validation, pc, tape, adjust_tape,
          head, instruction_pointer, reader, writer, result, first>>

programVars == <<content, instructions, brackets_map, validation>>
vmVars == <<tape, adjust_tape, head, instruction_pointer>>
ioVars == <<reader, writer>>

\* interpret's results
NoResult == [kind |-> "None", line |-> 0, position |-> 0]
OkResult == [kind |-> "Ok", line |-> 0, position |-> 0]
VMError(kind, instr) == [kind |-> kind, line |-> instr.line, position |-> instr.position]

\* the caller has kept nothing yet
NoFirst ==
    [kept |-> FALSE, input |-> << >>, tape |-> << >>, head |-> 0,
     instruction_pointer |-> 0, reader |-> << >>, writer |-> << >>,
     result |-> NoResult]

\* a program right after BrainFuckProgram::from_file; no machine yet
ProgramInit(c) ==
    /\ content = c
    /\ instructions = BrainFuckProgram_new(c)
    /\ brackets_map = EmptyMap
    /\ validation = NotValidated
    /\ pc = "parsed"
    /\ tape = << >>
    /\ adjust_tape = FALSE
    /\ head = 0
    /\ instruction_pointer = 0
    /\ reader = << >>
    /\ writer = << >>
    /\ result = NoResult
    /\ first = NoFirst

\* the characters of the programs that are run: the instruction symbols and
\* the newline, which is no instruction and starts a new line
RunAlphabet == Alphabet \ {"c"}

Init == \E c \in SeqsUpTo(RunAlphabet, MaxLen) : ProgramInit(c)

(* ------------------------- program operations -------------------------- *)
\* the caller runs validate_brackets on the parsed program
ValidateBrackets ==
    /\ pc = "parsed"
    /\ validation' = validate_brackets(instructions)
    /\ pc' = IF validation'.kind = "Ok" THEN "validated" ELSE "invalid"
    /\ UNCHANGED <<first, content, instructions, brackets_map, vmVars, ioVars, result>>

\* BrainFuckProgram::set_brackets_map with the map validate_brackets returned
set_brackets_map ==
    /\ pc = "validated"
    /\ brackets_map' = validation.map
    /\ pc' = "mapped"
    /\ UNCHANGED <<first, content, instructions, validation, vmVars, ioVars, result>>

(* --------------------------- btf_interp -------------------------------- *)
\* Option<T>
None == [some |-> FALSE, value |-> 0]
Some(v) == [some |-> TRUE, value |-> v]
UnwrapOr(opt, default) == IF opt.some THEN opt.value ELSE default

\* vec![T::default(); tape_size]
ZeroTape(tape_size) == [i \in 1..tape_size |-> 0]

\* a cell that stops at its largest value
saturating_increment(cell) == IF cell + 1 = CellModulus THEN cell ELSE cell + 1

\* impl CellKind for u8: wrapping_increment, wrapping_decrement
wrapping_increment(cell) == (cell + 1) % CellModulus
wrapping_decrement(cell) == (cell + CellModulus - 1) % CellModulus

\* the instruction at instruction_pointer and the cell under the head
CurrentInstruction == instructions[instruction_pointer + 1]
CurrentCell == tape[head + 1]

\* a constructor that leaves the head where the last machine had it
VirtualMachine_new_keeps_head(size, adjust) ==
    /\ pc \in {"parsed", "invalid", "mapped", "rerun"}
    /\ tape' = ZeroTape(UnwrapOr(size, DefaultTapeSize))
    /\ adjust_tape' = (IF adjust.some THEN adjust.value ELSE FALSE)
    /\ head' = head
    /\ instruction_pointer' = 0
    /\ pc' = "ready"
    /\ UNCHANGED <<first, programVars, ioVars, result>>

\* a constructor that starts a growable tape empty
VirtualMachine_new_empty_growable(size, adjust) ==
    /\ pc \in {"parsed", "invalid", "mapped", "rerun"}
    /\ tape' = IF adjust.some /\ adjust.value
               THEN << >>
               ELSE ZeroTape(UnwrapOr(size, DefaultTapeSize))
    /\ adjust_tape' = (IF adjust.some THEN adjust.value ELSE FALSE)
    /\ head' = 0
    /\ instruction_pointer' = 0
    /\ pc' = "ready"
    /\ UNCHANGED <<first, programVars, ioVars, result>>

\* VirtualMachine::new(&program, size, adjust_tape)
VirtualMachine_new(size, adjust) ==
    /\ pc \in {"parsed", "invalid", "mapped", "rerun"}
    /\ tape' = ZeroTape(UnwrapOr(size, DefaultTapeSize))
    /\ adjust_tape' = (IF adjust.some THEN adjust.value ELSE FALSE)
    /\ head' = 0
    /\ instruction_pointer' = 0
    /\ pc' = "ready"
    /\ UNCHANGED <<first, programVars, ioVars, result>>

\* the caller builds a machine with an explicit tape size
NewVM ==
    \E size \in 1..MaxSize, adjust \in {None, Some(TRUE), Some(FALSE)} :
        VirtualMachine_new(Some(size), adjust)

\* the program has an instruction that reads the input stream
ReadsInput == \E i \in 1..Len(instructions) : instructions[i].instruction = "AcceptByte"

\* the caller calls interpret with an input stream and an empty output stream;
\* a program that never reads is handed the empty stream
InterpretCall ==
    /\ pc = "ready"
    /\ \E in \in SeqsUpTo(InputBytes, MaxInput) :
          /\ ReadsInput \/ in = << >>
          /\ reader' = in
    /\ writer' = << >>
    /\ pc' = "running"
    /\ UNCHANGED <<first, programVars, vmVars, result>>

\* interpret's loop is at an instruction of the given kind
Fetch(kind) ==
    /\ pc = "running"
    /\ instruction_pointer < Len(instructions)
    /\ CurrentInstruction.instruction = kind

\* an interpret that records the error and runs on
FailAndRunOn(kind) ==
    /\ result' = VMError(kind, CurrentInstruction)
    /\ pc' = "running"

\* a step that returns Err: `?` makes interpret return it
Fail(kind) ==
    /\ result' = VMError(kind, CurrentInstruction)
    /\ pc' = "done"

\* a step that returns Ok(next): interpret stores next in instruction_pointer
Continue(next) ==
    /\ instruction_pointer' = next
    /\ UNCHANGED <<result, pc>>

\* a next_element that moves the head before it tests the bound
next_element_moves_first ==
    /\ Fetch("IncrementDataPointer")
    /\ head' = head + 1
    /\ IF head + 1 = Len(tape)
       THEN /\ Fail("NextElementNotReachable")
            /\ UNCHANGED instruction_pointer
       ELSE Continue(instruction_pointer + 1)
    /\ UNCHANGED <<first, programVars, tape, adjust_tape, ioVars>>

\* RawInstructions::IncrementDataPointer => self.next_element()?
next_element ==
    /\ Fetch("IncrementDataPointer")
    /\ IF head + 1 = Len(tape)
       THEN /\ Fail("NextElementNotReachable")
            /\ UNCHANGED <<head, instruction_pointer>>
       ELSE /\ head' = head + 1
            /\ Continue(instruction_pointer + 1)
    /\ UNCHANGED <<first, programVars, tape, adjust_tape, ioVars>>

\* a previous_element that steps over the instruction it fails on
previous_element_skips ==
    /\ Fetch("DecrementDataPointer")
    /\ IF head = 0
       THEN /\ Fail("PreviousElementNotReachanble")
            /\ instruction_pointer' = instruction_pointer + 1
            /\ UNCHANGED head
       ELSE /\ head' = head - 1
            /\ Continue(instruction_pointer + 1)
    /\ UNCHANGED <<first, programVars, tape, adjust_tape, ioVars>>

\* RawInstructions::DecrementDataPointer => self.previous_element()?
previous_element ==
    /\ Fetch("DecrementDataPointer")
    /\ IF head = 0
       THEN /\ Fail("PreviousElementNotReachanble")
            /\ UNCHANGED <<head, instruction_pointer>>
       ELSE /\ head' = head - 1
            /\ Continue(instruction_pointer + 1)
    /\ UNCHANGED <<first, programVars, tape, adjust_tape, ioVars>>

\* a wrapped_add that returns the instruction pointer it was called at
wrapped_add_stays ==
    /\ Fetch("IncrementByte")
    /\ tape' = [tape EXCEPT ![head + 1] = wrapping_increment(CurrentCell)]
    /\ Continue(instruction_pointer)
    /\ UNCHANGED <<first, programVars, adjust_tape, head, ioVars>>

\* RawInstructions::IncrementByte => self.wrapped_add()?
wrapped_add ==
    /\ Fetch("IncrementByte")
    /\ tape' = [tape EXCEPT ![head + 1] = wrapping_increment(CurrentCell)]
    /\ Continue(instruction_pointer + 1)
    /\ UNCHANGED <<first, programVars, adjust_tape, head, ioVars>>

\* RawInstructions::DecrementByte => self.wrapped_sub()?
wrapped_sub ==
    /\ Fetch("DecrementByte")
    /\ tape' = [tape EXCEPT ![head + 1] = wrapping_decrement(CurrentCell)]
    /\ Continue(instruction_pointer + 1)
    /\ UNCHANGED <<first, programVars, adjust_tape, head, ioVars>>

\* a read that takes the end of the stream for a byte that leaves the cell alone
read_eof_continues ==
    /\ Fetch("AcceptByte")
    /\ \/ /\ reader # << >>
          /\ tape' = [tape EXCEPT ![head + 1] = Head(reader)]
          /\ reader' = Tail(reader)
          /\ Continue(instruction_pointer + 1)
       \/ /\ reader = << >>
          /\ Continue(instruction_pointer + 1)
          /\ UNCHANGED <<tape, reader>>
       \/ /\ reader # << >>
          /\ Fail("IOError")
          /\ UNCHANGED <<tape, reader, instruction_pointer>>
    /\ UNCHANGED <<first, programVars, adjust_tape, head, writer>>

\* RawInstructions::AcceptByte => self.read(&mut input)?
\* read_exact fills the one-byte buffer from the stream, or fails: always at
\* the end of the stream, and whenever the stream itself fails
read ==
    /\ Fetch("AcceptByte")
    /\ \/ /\ reader # << >>
          /\ tape' = [tape EXCEPT ![head + 1] = Head(reader)]
          /\ reader' = Tail(reader)
          /\ Continue(instruction_pointer + 1)
       \/ /\ Fail("IOError")
          /\ UNCHANGED <<tape, reader, instruction_pointer>>
    /\ UNCHANGED <<first, programVars, adjust_tape, head, writer>>

\* an output that goes on to the next instruction when only the flush fails
output_ignores_flush ==
    /\ Fetch("OutputByte")
    /\ Len(writer) < MaxOutput
    /\ \/ /\ writer' = Append(writer, CurrentCell)
          /\ Continue(instruction_pointer + 1)
       \/ /\ writer' = Append(writer, CurrentCell)
          /\ Fail("IOError")
          /\ instruction_pointer' = instruction_pointer + 1
       \/ /\ Fail("IOError")
          /\ UNCHANGED <<writer, instruction_pointer>>
    /\ UNCHANGED <<first, programVars, tape, adjust_tape, head, reader>>

\* RawInstructions::OutputByte => self.output(&mut output)?
\* write_all and flush each succeed or fail as the stream decides
output ==
    /\ Fetch("OutputByte")
    /\ Len(writer) < MaxOutput
    /\ \/ /\ writer' = Append(writer, CurrentCell)
          /\ Continue(instruction_pointer + 1)
       \/ /\ writer' = Append(writer, CurrentCell)
          /\ Fail("IOError")
          /\ UNCHANGED instruction_pointer
       \/ /\ Fail("IOError")
          /\ UNCHANGED <<writer, instruction_pointer>>
    /\ UNCHANGED <<first, programVars, tape, adjust_tape, head, reader>>

\* a loop_zero_jump that lands past the matching close bracket
loop_zero_jump_past ==
    /\ Fetch("ZeroJump")
    /\ IF instruction_pointer \in DOMAIN brackets_map
       THEN Continue(brackets_map[instruction_pointer] + 1)
       ELSE /\ Fail("NextElementNotReachable")
            /\ UNCHANGED instruction_pointer
    /\ UNCHANGED <<first, programVars, tape, adjust_tape, head, ioVars>>

\* RawInstructions::ZeroJump => self.loop_zero_jump()?
loop_zero_jump ==
    /\ Fetch("ZeroJump")
    /\ IF instruction_pointer \in DOMAIN brackets_map
       THEN Continue(brackets_map[instruction_pointer])
       ELSE /\ Fail("NextElementNotReachable")
            /\ UNCHANGED instruction_pointer
    /\ UNCHANGED <<first, programVars, tape, adjust_tape, head, ioVars>>

\* a loop_non_zero_jump that lands on the matching open bracket
loop_non_zero_jump_to_open ==
    /\ Fetch("NonZeroJump")
    /\ IF CurrentCell # 0
       THEN IF instruction_pointer \in DOMAIN brackets_map
            THEN Continue(brackets_map[instruction_pointer])
            ELSE /\ Fail("NextElementNotReachable")
                 /\ UNCHANGED instruction_pointer
       ELSE Continue(instruction_pointer + 1)
    /\ UNCHANGED <<first, programVars, tape, adjust_tape, head, ioVars>>

\* RawInstructions::NonZeroJump => self.loop_non_zero_jump()?
loop_non_zero_jump ==
    /\ Fetch("NonZeroJump")
    /\ IF CurrentCell # 0
       THEN IF instruction_pointer \in DOMAIN brackets_map
            THEN Continue(brackets_map[instruction_pointer] + 1)
            ELSE /\ Fail("NextElementNotReachable")
                 /\ UNCHANGED instruction_pointer
       ELSE Continue(instruction_pointer + 1)
    /\ UNCHANGED <<first, programVars, tape, adjust_tape, head, ioVars>>

\* the `while` condition of interpret is false: Ok(())
\* an interpret whose loop stops one instruction early
InterpretReturnEarly ==
    /\ pc = "running"
    /\ ~(instruction_pointer + 1 < Len(instructions))
    /\ result' = OkResult
    /\ pc' = "done"
    /\ UNCHANGED <<first, programVars, vmVars, ioVars>>

InterpretReturn ==
    /\ pc = "running"
    /\ ~(instruction_pointer < Len(instructions))
    /\ result' = OkResult
    /\ pc' = "done"
    /\ UNCHANGED <<first, programVars, vmVars, ioVars>>

\* one iteration of interpret's loop
Step ==
    \/ next_element
    \/ previous_element
    \/ wrapped_add
    \/ wrapped_sub
    \/ output
    \/ read
    \/ loop_zero_jump
    \/ loop_non_zero_jump

Next ==
    \/ ValidateBrackets
    \/ set_brackets_map
    \/ NewVM
    \/ InterpretCall
    \/ Step
    \/ InterpretReturn

Spec == Init /\ [][Next]_vars

(* ------------------ cells of every value, loaded by `,` ----------------- *)
\* every value a byte of the input stream can have
AllBytes == 0..(CellModulus - 1)

\* the loop `[-]` on a fresh cell and on a cell loaded by `,`, increments and
\* decrements of a loaded cell, and a loaded cell under each other instruction
CellPrograms ==
    { <<"[", "-", "]">>, <<",", "[", "-", "]">>,
      <<",", "+">>, <<",", "-">>, <<",", "+", "-">>, <<",", "-", "+">>,
      <<",", ".">>, <<",", ">">>, <<",", "<">> }

InitCell == \E c \in CellPrograms : ProgramInit(c)

\* the caller calls interpret with an input stream of at most one byte, of
\* any value, and an empty output stream
InterpretCallByte ==
    /\ pc = "ready"
    /\ \E in \in {<< >>} \cup {<<b>> : b \in AllBytes} :
          /\ ReadsInput \/ in = << >>
          /\ reader' = in
    /\ writer' = << >>
    /\ pc' = "running"
    /\ UNCHANGED <<first, programVars, vmVars, result>>

NextCell ==
    \/ ValidateBrackets
    \/ set_brackets_map
    \/ NewVM
    \/ InterpretCallByte
    \/ Step
    \/ InterpretReturn

SpecCell == InitCell /\ [][NextCell]_vars

\* interpret runs its loop to the end: nothing suspends it between two steps
SpecCellFair == SpecCell /\ WF_vars(Step \/ InterpretReturn)

(* ------------------- two runs of one program --------------------------- *)
\* the longest source text of a program that is run twice
MaxRerunLen == 3

InitRerun == \E c \in SeqsUpTo(RunAlphabet, MaxRerunLen) : ProgramInit(c)

\* the first interpret call; the caller keeps the input it hands over
InterpretCallFirst ==
    /\ pc = "ready"
    /\ ~first.kept
    /\ \E in \in SeqsUpTo(InputBytes, MaxInput) :
          /\ ReadsInput \/ in = << >>
          /\ reader' = in
          /\ first' = [first EXCEPT !.input = in]
    /\ writer' = << >>
    /\ pc' = "running"
    /\ UNCHANGED <<programVars, vmVars, result>>

\* the first run has returned: the caller keeps what it left behind
Rerun ==
    /\ pc = "done"
    /\ ~first.kept
    /\ first' = [kept |-> TRUE, input |-> first.input, tape |-> tape, head |-> head,
                 instruction_pointer |-> instruction_pointer, reader |-> reader,
                 writer |-> writer, result |-> result]
    /\ result' = NoResult
    /\ pc' = "rerun"
    /\ UNCHANGED <<programVars, vmVars, ioVars>>

\* a second VirtualMachine::new on the same program with the same arguments
NewVMAgain ==
    /\ pc = "rerun"
    /\ VirtualMachine_new(Some(Len(tape)), Some(adjust_tape))

\* the second interpret call, with a stream of the bytes the first one had
InterpretCallAgain ==
    /\ pc = "ready"
    /\ first.kept
    /\ reader' = first.input
    /\ writer' = << >>
    /\ pc' = "running"
    /\ UNCHANGED <<first, programVars, vmVars, result>>

NextRerun ==
    \/ ValidateBrackets
    \/ set_brackets_map
    \/ NewVM /\ pc # "rerun"
    \/ InterpretCallFirst
    \/ Step
    \/ InterpretReturn
    \/ Rerun
    \/ NewVMAgain
    \/ InterpretCallAgain

SpecRerun == InitRerun /\ [][NextRerun]_vars

(* ------------------- the constructor alone ----------------------------- *)
\* the longest source text of a program a machine is only built for
MaxNewLen == 1

\* the arguments of VirtualMachine::new: Option<usize> and Option<bool>
NewSizes == {None} \cup {Some(n) : n \in 0..MaxSize}
NewPolicies == {None, Some(TRUE), Some(FALSE)}

InitNew == \E c \in SeqsUpTo(RunAlphabet, MaxNewLen) : ProgramInit(c)

\* the caller builds a machine with any arguments
NewVMAny == \E size \in NewSizes, adjust \in NewPolicies : VirtualMachine_new(size, adjust)

NextNew ==
    \/ ValidateBrackets
    \/ set_brackets_map
    \/ NewVMAny

SpecNew == InitNew /\ [][NextNew]_vars

(* ------------------- programs without brackets ------------------------ *)
\* the longest source text of a program without `[` and `]`
MaxStraightLen == 3

StraightAlphabet == RunAlphabet \ {"[", "]"}

InitStraight == \E c \in SeqsUpTo(StraightAlphabet, MaxStraightLen) : ProgramInit(c)

\* one iteration of interpret's loop at an instruction that is no bracket
StraightStep ==
    \/ next_element
    \/ previous_element
    \/ wrapped_add
    \/ wrapped_sub
    \/ output
    \/ read

NextStraight ==
    \/ ValidateBrackets
    \/ set_brackets_map
    \/ NewVM
    \/ InterpretCall
    \/ StraightStep
    \/ InterpretReturn

SpecStraight == InitStraight /\ [][NextStraight]_vars

\* interpret's loop runs on until it returns, every call of the streams
\* returning
SpecStraightFair == SpecStraight /\ WF_vars(StraightStep \/ InterpretReturn)

(* ------------------- the loader and the validator alone ---------------- *)
InitLoad == \E c \in SeqsUpTo(Alphabet, MaxSrcLen) : ProgramInit(c)

NextLoad ==
    \/ ValidateBrackets
    \/ set_brackets_map

SpecLoad == InitLoad /\ [][NextLoad]_vars

(* ------------------------------ claims --------------------------------- *)
\* the program's bracket map is the one a successful validate_brackets returned
ValidatedProgram ==
    /\ validation.kind = "Ok"
    /\ brackets_map = validation.map

\* a step that neither ends the run nor touches tape and head
JumpsTo(next) ==
    /\ instruction_pointer' = next
    /\ result' = NoResult
    /\ pc' = "running"
    /\ UNCHANGED <<tape, head>>

IsOpen(instrs, i) == instrs[i].instruction = "ZeroJump"
IsClose(instrs, i) == instrs[i].instruction = "NonZeroJump"

\* open brackets minus close brackets among the first n instructions
Depth(instrs, n) ==
    Cardinality({i \in 1..n : IsOpen(instrs, i)})
      - Cardinality({i \in 1..n : IsClose(instrs, i)})

\* the `]` (1-based indices) that no earlier `[` is left to match
UnmatchedCloses(instrs) ==
    {j \in 1..Len(instrs) : IsClose(instrs, j) /\ Depth(instrs, j - 1) = 0}

\* the `[` (1-based indices) that no later `]` closes: after it the depth
\* never comes back to what it was before it
UnclosedOpens(instrs) ==
    {i \in 1..Len(instrs) :
        /\ IsOpen(instrs, i)
        /\ \A j \in i..Len(instrs) : Depth(instrs, j) > Depth(instrs, i - 1)}

Balanced(instrs) ==
    /\ \A n \in 0..Len(instrs) : Depth(instrs, n) >= 0
    /\ Depth(instrs, Len(instrs)) = 0

\* the 0-based indices of the bracket instructions
BracketIndices(instrs) ==
    {i - 1 : i \in {k \in 1..Len(instrs) : IsOpen(instrs, k) \/ IsClose(instrs, k)}}

Min(S) == CHOOSE x \in S : \A y \in S : x <= y
Max(S) == CHOOSE x \in S : \A y \in S : x >= y

\* validate_brackets has run on the program
Validated == validation.kind # "None"

\* C5: on balanced brackets validate_brackets succeeds, and its map is defined
\* on the bracket instructions and on nothing else and is its own inverse
C5_BalancedMapInvolution ==
    (Validated /\ Balanced(instructions))
      => /\ validation.kind = "Ok"
         /\ DOMAIN validation.map = BracketIndices(instructions)
         /\ \A i \in DOMAIN validation.map :
              /\ validation.map[i] \in DOMAIN validation.map
              /\ validation.map[validation.map[i]] = i

\* validate_brackets has paired the four brackets of `[[]]`
C5_Witness ==
    /\ content = <<"[", "[", "]", "]">>
    /\ validation.kind = "Ok"
    /\ validation.map[0] = 3
    /\ validation.map[2] = 1

\* C6: when some `]` meets an empty stack, validate_brackets fails with the
\* unmatched-close error at the line and column of the first such `]`,
\* whatever follows it
C6_UnmatchedCloseFirst ==
    (Validated /\ UnmatchedCloses(instructions) # {})
      => LET close == instructions[Min(UnmatchedCloses(instructions))]
         IN  /\ validation.kind = "NoOpenBracket"
             /\ validation.line = close.line
             /\ validation.column = close.position

\* validate_brackets has refused a comment, a newline, `]` and `[` at the `]`,
\* line 2 column 1, with an unclosed `[` behind it
C6_Witness ==
    /\ content = <<"c", "\n", "]", "[">>
    /\ validation.kind = "NoOpenBracket"
    /\ validation.line = 2
    /\ validation.column = 1

\* C7: when no `]` is unmatched and some `[` is left unclosed,
\* validate_brackets fails with the unmatched-open error at the line and
\* column of the last of the unclosed `[`
C7_UnmatchedOpenInnermost ==
    (Validated /\ UnmatchedCloses(instructions) = {}
               /\ UnclosedOpens(instructions) # {})
      => LET last == instructions[Max(UnclosedOpens(instructions))]
         IN  /\ validation.kind = "NoCloseBracket"
             /\ validation.line = last.line
             /\ validation.column = last.position

\* validate_brackets has refused `[` newline `[+`: two brackets are left
\* open and the error names the inner one, line 2 column 1
C7_Witness ==
    /\ content = <<"[", "\n", "[", "+">>
    /\ validation.kind = "NoCloseBracket"
    /\ validation.line = 2
    /\ validation.column = 1

(* the steps of the machine *)
\* a step that ends the run with the given error at the current instruction
\* and moves neither the instruction pointer nor the head nor the tape
FailsWith(kind) ==
    /\ result' = VMError(kind, CurrentInstruction)
    /\ pc' = "done"
    /\ UNCHANGED <<tape, head, instruction_pointer>>

\* a step that goes on to the next instruction
GoesOn ==
    /\ instruction_pointer' = instruction_pointer + 1
    /\ result' = NoResult
    /\ pc' = "running"

\* C3 as stated: with adjust_tape set, a MoveRight step never fails; at the
\* last cell it appends a zero cell, and the head always advances
C3_GrowableNeverOverflows ==
    [][(Fetch("IncrementDataPointer") /\ adjust_tape)
        => /\ GoesOn
           /\ head' = head + 1
           /\ tape' = IF head + 1 = Len(tape) THEN Append(tape, 0) ELSE tape]_vars

\* C4 as stated: with an empty bracket map, a `[` or `]` step fails whatever
\* the current cell holds and the run does not get past it
C4_UnvalidatedLoopFails ==
    [][(/\ Fetch("ZeroJump") \/ Fetch("NonZeroJump")
        /\ brackets_map = EmptyMap)
        => /\ pc' = "done"
           /\ result'.kind \notin {"None", "Ok"}
           /\ UNCHANGED <<tape, head, instruction_pointer>>]_vars

\* C8: on a fixed tape a MoveRight step at the last cell fails with the
\* overflow error at the instruction's line and column and moves nothing;
\* before the last cell it succeeds and moves the head right by one
C8_FixedTapeOverflow ==
    [][(Fetch("IncrementDataPointer") /\ ~adjust_tape)
        => /\ Len(tape) >= 1
           /\ IF head = Len(tape) - 1
              THEN FailsWith("NextElementNotReachable")
              ELSE /\ head < Len(tape) - 1
                   /\ GoesOn
                   /\ head' = head + 1
                   /\ tape' = tape]_vars

\* a run on a fixed tape has moved right at least once and has then failed
\* on a MoveRight at the last cell
C8_Witness ==
    /\ pc = "done"
    /\ ~adjust_tape
    /\ result.kind = "NextElementNotReachable"
    /\ CurrentInstruction.instruction = "IncrementDataPointer"
    /\ result.line = CurrentInstruction.line
    /\ result.position = CurrentInstruction.position
    /\ head = Len(tape) - 1
    /\ head > 0

\* C9: under either tape policy a MoveLeft step at cell 0 fails with the
\* underflow error at the instruction's line and column and moves nothing;
\* elsewhere it succeeds, moves the head left by one and goes on
C9_MoveLeftUnderflow ==
    [][Fetch("DecrementDataPointer")
        => IF head = 0
           THEN FailsWith("PreviousElementNotReachanble")
           ELSE /\ GoesOn
                /\ head' = head - 1
                /\ tape' = tape]_vars

\* a run on a growable tape has moved left once, back to cell 0, and has then
\* failed on the next MoveLeft
C9_Witness ==
    /\ pc = "done"
    /\ adjust_tape
    /\ result.kind = "PreviousElementNotReachanble"
    /\ CurrentInstruction.instruction = "DecrementDataPointer"
    /\ result.line = CurrentInstruction.line
    /\ result.position = CurrentInstruction.position
    /\ head = 0
    /\ instruction_pointer >= 2
    /\ instructions[instruction_pointer].instruction = "DecrementDataPointer"

\* C10: an Input step either takes the first byte left in the stream, stores
\* it in the current cell and goes on, or, when the stream is exhausted or
\* fails, ends the run with IOError at the instruction's line and column,
\* leaving cell, stream and instruction pointer alone; it never ends the run
\* with success
C10_InputStep ==
    [][Fetch("AcceptByte")
        => \/ /\ reader # << >>
              /\ reader' = Tail(reader)
              /\ tape' = [tape EXCEPT ![head + 1] = Head(reader)]
              /\ head' = head
              /\ GoesOn
           \/ /\ FailsWith("IOError")
              /\ reader' = reader]_vars

\* a run has read the byte 7 into the current cell and has then failed with
\* IOError on the next Input step, the stream being exhausted
C10_Witness ==
    /\ pc = "done"
    /\ result.kind = "IOError"
    /\ CurrentInstruction.instruction = "AcceptByte"
    /\ result.line = CurrentInstruction.line
    /\ result.position = CurrentInstruction.position
    /\ reader = << >>
    /\ tape[head + 1] = 7
    /\ instruction_pointer >= 1
    /\ instructions[instruction_pointer].instruction = "AcceptByte"

\* C11: an Output step that succeeds appends the current cell's value, and
\* nothing else, to the output stream, leaves tape and head alone and goes on
\* to the next instruction; when the write or the flush fails the step ends
\* the run with IOError at the instruction's line and column and the
\* instruction pointer stays
C11_OutputStep ==
    [][Fetch("OutputByte")
        => /\ reader' = reader
           /\ \/ /\ writer' = Append(writer, CurrentCell)
                 /\ GoesOn
                 /\ UNCHANGED <<tape, head>>
              \/ /\ FailsWith("IOError")
                 /\ writer' \in {writer, Append(writer, CurrentCell)}]_vars

\* the run of `++.` has ended with success and the output is the one byte 2
C11_Witness ==
    /\ content = <<"+", "+", ".">>
    /\ pc = "done"
    /\ result = OkResult
    /\ writer = <<2>>
    /\ tape[head + 1] = 2

(* cell arithmetic *)
\* n increments of a cell, the first half of them and then the rest
RECURSIVE IncrementTimes(_, _)
IncrementTimes(cell, n) ==
    IF n = 0 \/ cell \notin Nat THEN cell
    ELSE IF n = 1 THEN wrapping_increment(cell)
    ELSE IncrementTimes(IncrementTimes(cell, n \div 2), n - (n \div 2))

\* a step that goes on and changes nothing but the current cell, to `value`
SetsCell(value) ==
    /\ GoesOn
    /\ tape' = [tape EXCEPT ![head + 1] = value]
    /\ UNCHANGED <<head, reader, writer>>

\* C12: Increment and Decrement steps never fail and change the current cell
\* only, by one modulo 256: 255 + 1 is 0 and 0 - 1 is 255; on the cell they
\* act on, a decrement undoes an increment and 256 increments change nothing
C12_WrappingCell ==
    /\ [][/\ Fetch("IncrementByte")
               => SetsCell(IF CurrentCell = 255 THEN 0 ELSE CurrentCell + 1)
          /\ Fetch("DecrementByte")
               => SetsCell(IF CurrentCell = 0 THEN 255 ELSE CurrentCell - 1)]_vars
    /\ []((Fetch("IncrementByte") \/ Fetch("DecrementByte"))
            => /\ CurrentCell \in 0..255
               /\ wrapping_increment(255) = 0
               /\ wrapping_decrement(0) = 255
               /\ wrapping_decrement(wrapping_increment(CurrentCell)) = CurrentCell
               /\ IncrementTimes(CurrentCell, 256) = CurrentCell)

\* the run of `,+` has read a byte and incremented it to 0: the byte was 255
C12_Witness ==
    /\ content = <<",", "+">>
    /\ instruction_pointer = 2
    /\ reader = << >>
    /\ tape[head + 1] = 0

(* the loop `[-]` *)
\* the program is `[-]`, or `[-]` behind the `,` that loads the cell
ClearLoop == content \in {<<"[", "-", "]">>, <<",", "[", "-", "]">>}
\* the index of the `[` of the loop
ClearLoopStart == Len(content) - 3

\* the validated loop is about to start on cell 0, whatever it holds, with
\* every other cell 0 and nothing left to read
ClearLoopEntered ==
    /\ ClearLoop
    /\ ValidatedProgram
    /\ pc = "running"
    /\ instruction_pointer = ClearLoopStart
    /\ head = 0

\* the run has ended with success, every cell is 0, the head is on cell 0 and
\* nothing was written or is left to read
ClearLoopDone ==
    /\ pc = "done"
    /\ result = OkResult
    /\ instruction_pointer = Len(instructions)
    /\ head = 0
    /\ tape = ZeroTape(Len(tape))
    /\ reader = << >>
    /\ writer = << >>

\* C13: the validated `[-]`, run from head 0 with any value in cell 0, ends
\* with success with cell 0 at 0; on the way the head, the other cells, the
\* input stream and the output stream do not change
C13_ClearLoopTerminates ==
    /\ ClearLoopEntered ~> ClearLoopDone
    /\ [][(ClearLoop /\ ValidatedProgram /\ pc = "running"
             /\ instruction_pointer >= ClearLoopStart)
          => /\ head' = head
             /\ Len(tape') = Len(tape)
             /\ \A i \in 2..Len(tape) : tape'[i] = tape[i]
             /\ reader' = reader
             /\ writer' = writer
             /\ result' \in {NoResult, OkResult}]_vars

\* the validated loop is in its body with 5 in cell 0
C13_Witness ==
    /\ content = <<",", "[", "-", "]">>
    /\ ValidatedProgram
    /\ pc = "running"
    /\ instruction_pointer = 2
    /\ head = 0
    /\ tape[1] = 5

(* errors *)
IsError(r) == r.kind \notin {"None", "Ok"}

\* C14: the step that fails ends the run with its error, at the instruction
\* the instruction pointer still indexes, and changes neither tape, head nor
\* instruction pointer; what was written before stays written; once an error
\* is returned nothing changes any more
C14_ErrorsAreTerminal ==
    [][IF IsError(result)
       THEN FALSE
       ELSE IsError(result')
              => /\ pc = "running"
                 /\ instruction_pointer < Len(instructions)
                 /\ result' = VMError(result'.kind, CurrentInstruction)
                 /\ pc' = "done"
                 /\ UNCHANGED <<tape, head, instruction_pointer, reader>>
                 /\ Len(writer') >= Len(writer)
                 /\ SubSeq(writer', 1, Len(writer)) = writer]_vars

\* the run of `+.<` has ended with the underflow error at the `<`: the cell
\* keeps the 1 of the `+` and the output keeps the byte of the `.`
C14_Witness ==
    /\ content = <<"+", ".", "<">>
    /\ pc = "done"
    /\ result.kind = "PreviousElementNotReachanble"
    /\ instruction_pointer = 2
    /\ tape[head + 1] = 1
    /\ writer = <<1>>


\* the streams of a finished run did what streams do: the writer took every
\* byte and the reader failed only at its end
HealthyStreams(ip, rd, res) ==
    res.kind = "IOError"
        => /\ instructions[ip + 1].instruction = "AcceptByte"
           /\ rd = << >>

InstructionChars == {">", "<", "+", "-", ".", ",", "[", "]"}

\* the indices of the newlines before character k of a source text
NewlinesBefore(c, k) == {j \in 1..(k - 1) : c[j] = "\n"}

\* the 1-based line of character k: 1 plus the newlines before it
LineOf(c, k) == 1 + Cardinality(NewlinesBefore(c, k))

\* the 1-based column of character k: its distance from the last newline
\* before it, or from the start of the text
ColumnOf(c, k) == k - Max(NewlinesBefore(c, k) \cup {0})

\* the indices of the instruction characters of a source text, in order
InstructionIndices(c) ==
    SelectSeq([k \in 1..Len(c) |-> k], LAMBDA k : c[k] \in InstructionChars)

\* C16: parsing yields exactly the source's instruction characters in source
\* order, each with its 1-based line (1 plus the newlines before it) and its
\* 1-based column counted over every character of its line; every other
\* character yields nothing.
C16_ParsePositions ==
    LET idx == InstructionIndices(content)
    IN  /\ Len(instructions) = Len(idx)
        /\ \A n \in 1..Len(idx) :
              /\ instructions[n].instruction = TryFrom(content[idx[n]])
              /\ instructions[n].instruction # "Err"
              /\ instructions[n].line = LineOf(content, idx[n])
              /\ instructions[n].position = ColumnOf(content, idx[n])

\* a comment, a newline, a comment and `+`: one instruction, at line 2 column 2
C16_Witness ==
    /\ content = <<"c", "\n", "c", "+">>
    /\ pc = "validated"
    /\ Len(instructions) = 1
    /\ instructions[1] = [instruction |-> "IncrementByte", line |-> 2, position |-> 2]


\* C17 as stated: a `[` or `]` step that finds its instruction pointer absent
\* from the bracket map fails with an error of a kind of its own, which is
\* none of the tape-overflow, tape-underflow and I/O kinds
C17_MissingMapIsMalformed ==
    (/\ pc = "done"
     /\ IsError(result)
     /\ instruction_pointer < Len(instructions)
     /\ CurrentInstruction.instruction \in {"ZeroJump", "NonZeroJump"}
     /\ instruction_pointer \notin DOMAIN brackets_map)
      => /\ result.kind = "MalformedProgram"
         /\ result.kind \notin {"NextElementNotReachable",
                                 "PreviousElementNotReachanble", "IOError"}


\* the tape size a machine is asked for: the given one, or 3000
AskedSize(size) == IF size = None THEN 3000 ELSE size.value

\* the policy a machine is asked for is the growable one
AskedGrowable(adjust) == adjust = Some(TRUE)

\* a tape of n cells, all zero
IsZeroTape(t, n) == Len(t) = n /\ \A i \in 1..n : t[i] = 0

C20_ValidatedNeverMissesBracket ==
    (/\ ValidatedProgram
     /\ pc \in {"running", "done"}
     /\ instruction_pointer < Len(instructions)
     /\ CurrentInstruction.instruction \in {"ZeroJump", "NonZeroJump"})
      => /\ instruction_pointer \in DOMAIN brackets_map
         /\ brackets_map[instruction_pointer] \in 0..(Len(instructions) - 1)
         /\ ~IsError(result)

\* `+[]` validated and mapped, standing at its `]` on a cell that holds 1:
\* the step looks the map up
C20_Witness ==
    /\ content = <<"+", "[", "]">>
    /\ ValidatedProgram
    /\ pc = "running"
    /\ instruction_pointer = 2
    /\ tape[head + 1] = 1
    /\ brackets_map[2] = 1


(* the specified loop protocol, as a relation to the implemented one *)
\* the specified step of the bracket at index r: `[` jumps past its `]` on a
\* zero cell and enters the body otherwise; `]` jumps to just past its `[` on
\* a non-zero cell and leaves the loop otherwise
SpecifiedNext(r) ==
    IF instructions[r + 1].instruction = "ZeroJump"
    THEN IF CurrentCell = 0 THEN brackets_map[r] + 1 ELSE r + 1
    ELSE IF CurrentCell # 0 THEN brackets_map[r] + 1 ELSE r + 1

\* the specified machine at index r goes with the implemented one at index i:
\* they stand at the same instruction, or the implemented one has made its
\* unconditional jump from the `[` at r to the matching `]` and the specified
\* one has its `[` step still to make
GoesWith(r, i) ==
    \/ r = i
    \/ /\ r < Len(instructions)
       /\ instructions[r + 1].instruction = "ZeroJump"
       /\ r \in DOMAIN brackets_map
       /\ brackets_map[r] = i

\* a step that shows nothing: tape, head and streams are as they were and
\* the run goes on
Silent ==
    /\ UNCHANGED <<tape, head, reader, writer>>
    /\ result' = NoResult
    /\ pc' = "running"

\* C19: on a validated program the implemented loop protocol is a step-by-step
\* match of the specified one. With the specified machine at any index r that
\* goes with the implemented instruction pointer, on the same tape, head and
\* streams: an implemented `[` step is silent and is followed by the matching
\* `]`, the specified machine waiting at that `[`; an implemented `]` step is
\* silent and lands where the specified step from r lands; every other
\* instruction, and the end of the program, is met by both at the same index,
\* so that both make the same update, output, input or error, or both return.
C19_LoopProtocolsEquivalent ==
    [][(ValidatedProgram /\ pc = "running")
        => \A r \in 0..Len(instructions) :
             GoesWith(r, instruction_pointer)
               => IF ~(instruction_pointer < Len(instructions))
                  THEN r = instruction_pointer
                  ELSE IF CurrentInstruction.instruction = "ZeroJump"
                  THEN /\ r = instruction_pointer
                       /\ Silent
                       /\ instruction_pointer' # r
                       /\ GoesWith(r, instruction_pointer')
                       /\ instructions[instruction_pointer' + 1].instruction
                            = "NonZeroJump"
                  ELSE IF CurrentInstruction.instruction = "NonZeroJump"
                  THEN /\ Silent
                       /\ instruction_pointer' = SpecifiedNext(r)
                  ELSE r = instruction_pointer]_vars

\* the run of `+[-]` stands on the `]` with the cell at 1: the implemented `[`
\* step has jumped there and the specified one would have entered the body
C19_Witness ==
    /\ content = <<"+", "[", "-", "]">>
    /\ ValidatedProgram
    /\ pc = "running"
    /\ instruction_pointer = 3
    /\ tape[head + 1] = 1
    /\ GoesWith(1, instruction_pointer)
    /\ SpecifiedNext(1) = 2


\* C21: in every state of a run of a validated program the instruction
\* pointer is within 0..len(instructions); a step is taken only below
\* len(instructions), so an error is always at an instruction; and the run has
\* returned Ok exactly when it has returned with the instruction pointer at
\* len(instructions).
C21_InstructionPointerInRange ==
    (ValidatedProgram /\ pc \in {"running", "done"})
      => /\ instruction_pointer \in 0..Len(instructions)
         /\ (ENABLED Step) => instruction_pointer < Len(instructions)
         /\ IsError(result) => instruction_pointer < Len(instructions)
         /\ pc = "done"
              => (result = OkResult <=> instruction_pointer = Len(instructions))
         /\ pc = "running" => result = NoResult

\* the run of `+[-]` has returned Ok with the instruction pointer at 4, the
\* length of the program, after the `]` step left the loop
C21_Witness ==
    /\ content = <<"+", "[", "-", "]">>
    /\ ValidatedProgram
    /\ pc = "done"
    /\ result = OkResult
    /\ instruction_pointer = 4
    /\ instruction_pointer = Len(instructions)
    /\ tape[head + 1] = 0


\* the pairs (open, close) of a bracket map, 0-based
PairsOf(map) == {<<i, map[i]>> : i \in {k \in DOMAIN map : k < map[k]}}

\* C22: when validate_brackets succeeds, every `[` at index i is mapped to a
\* `]` at an index j > i and that `]` back to i, every bracket has exactly
\* one partner, and any two pairs are disjoint or nested, never crossing.
C22_PairsNestProperly ==
    (Validated /\ validation.kind = "Ok")
      => LET map == validation.map
         IN  /\ DOMAIN map = BracketIndices(instructions)
             /\ \A i \in DOMAIN map :
                   /\ map[i] \in DOMAIN map
                   /\ map[map[i]] = i
                   /\ IsOpen(instructions, i + 1)
                        => map[i] > i /\ IsClose(instructions, map[i] + 1)
                   /\ IsClose(instructions, i + 1)
                        => map[i] < i /\ IsOpen(instructions, map[i] + 1)
                   /\ \A k \in DOMAIN map : map[k] = map[i] => k = i
             /\ \A p \in PairsOf(map), q \in PairsOf(map) :
                   p[1] < q[1] => (p[2] < q[1] \/ q[2] < p[2])
             /\ ~(\E p \in PairsOf(map), q \in PairsOf(map) :
                     p[1] < q[1] /\ q[1] < p[2] /\ p[2] < q[2])

\* validate_brackets has paired `[[]]` as (0, 3) around (1, 2), and not
\* as the crossing (0, 2) and (1, 3)
C22_Witness ==
    /\ content = <<"[", "[", "]", "]">>
    /\ pc = "validated"
    /\ PairsOf(validation.map) = {<<0, 3>>, <<1, 2>>}


\* C23: in every state of a machine built with a tape size of at least 1,
\* before, during and after a run, the head is an index of the tape, so that
\* the cell under the head exists whenever an instruction reads or writes it.
C23_HeadWithinTape ==
    (pc \in {"ready", "running", "done", "rerun"})
      => /\ Len(tape) >= 1
         /\ head \in 0..(Len(tape) - 1)
         /\ head + 1 \in DOMAIN tape
         /\ CurrentCell \in 0..(CellModulus - 1)

\* the run of `>+>` on a tape of two cells has stopped at the second `>`
\* with the head on the last cell, which holds the 1 that `+` wrote
C23_Witness ==
    /\ content = <<">", "+", ">">>
    /\ pc = "done"
    /\ Len(tape) = 2
    /\ head = Len(tape) - 1
    /\ tape = <<0, 1>>
    /\ result.kind = "NextElementNotReachable"


\* the program has no `[` and no `]`
BracketFree == BracketIndices(instructions) = {}

\* the output stream of the model has room for every byte the program writes
OutputsFit ==
    Cardinality({i \in 1..Len(instructions) :
                    instructions[i].instruction = "OutputByte"}) <= MaxOutput

\* C24: in a program without brackets every step either fails and ends the
\* run or moves the instruction pointer up by exactly 1; the pointer never
\* passes len(instructions), so the steps taken are at most len(instructions);
\* and a run whose stream calls return does end, with Ok or with the first
\* error.
C24_StraightProgramEnds ==
    /\ [][(BracketFree /\ pc = "running")
            => \/ /\ pc' = "running"
                  /\ instruction_pointer < Len(instructions)
                  /\ instruction_pointer' = instruction_pointer + 1
                  /\ result' = NoResult
               \/ /\ pc' = "done"
                  /\ instruction_pointer' = instruction_pointer
                  /\ IF instruction_pointer = Len(instructions)
                     THEN result' = OkResult
                     ELSE IsError(result')]_vars
    /\ []((BracketFree /\ pc \in {"running", "done"})
            => instruction_pointer \in 0..Len(instructions))
    /\ ((BracketFree /\ OutputsFit /\ pc = "running") ~> (pc = "done"))

\* the run of `+>.` has returned Ok after its three steps
C24_Witness ==
    /\ content = <<"+", ">", ".">>
    /\ BracketFree
    /\ pc = "done"
    /\ result = OkResult
    /\ instruction_pointer = 3
    /\ tape = <<1, 0>>
    /\ writer = <<0>>

====
